---- MODULE Spec2Model ----
(***************************************************************************)
(* Anchor generation and ground-truth assignment of efficientdet-tf        *)
(* (efficientdet/utils/anchors.py).                                        *)
(*                                                                         *)
(* Numbers.  The boxes given to anchor_targets_bbox have integer            *)
(* coordinates.  Every quotient the code forms                             *)
(* is kept exactly as a pair <<n, d>>: d > 0 is the reduced fraction n/d,  *)
(* and d = 0 is what IEEE division by zero returns: <<1,0>> = +inf,        *)
(* <<-1,0>> = -inf, <<0,0>> = NaN.  Sequences are 1-based; the indices the *)
(* code stores in tensors (argmax, batched_indices, labels) keep the       *)
(* code's 0-based values.  A box is <<x1, y1, x2, y2>>.                    *)
(*                                                                         *)
(* The numbers of AnchorGenerator hold 2^(1/3) and square roots of 2.  They *)
(* are kept exactly as the real numbers the floats stand for: a number is   *)
(* <<c0, c1, c2, c3, c4, c5>>, six quotients, and means                     *)
(* c0 + c1 * 2^(1/6) + c2 * 2^(2/6) + ... + c5 * 2^(5/6).                   *)
(***************************************************************************)
EXTENDS Integers, Sequences, FiniteSets

VARIABLES
    pc,                    \* position inside anchor_targets_bbox
    anchors,               \* [N] boxes                      (argument)
    image_shape,           \* <<H, W>> = images.shape[1..2]  (argument)
    bndboxes,              \* [B][M] ground-truth boxes      (argument)
    labels,                \* [B][M] ground-truth labels     (argument)
    positive_indices,      \* [B][N] BOOLEAN
    ignore_indices,        \* [B][N] BOOLEAN
    argmax_overlaps_inds,  \* [B*N] pairs <<b, j>>, 0-based
    chose_labels,          \* [B][N] label of the matched slot
    labels_per_anchor,     \* [B][N] row of num_classes + 1 numbers
    regression_per_anchor, \* [B][N] row of 4 quotients and the state
    tpc,                   \* position inside tile_anchors_over_feature_map
    size,                  \* AnchorGenerator.size
    aspect_ratios,         \* AnchorGenerator.aspect_ratios
    self_anchors,          \* AnchorGenerator.anchors, [A] boxes
    stride,                \* AnchorGenerator.stride
    feature_map_shape,     \* <<h, w>>                       (argument)
    all_anchors            \* [K*A] tiled boxes              (result)

targetVars == <<pc, anchors, image_shape, bndboxes, labels, positive_indices,
                ignore_indices, argmax_overlaps_inds, chose_labels,
                labels_per_anchor, regression_per_anchor>>
tileVars == <<tpc, size, aspect_ratios, self_anchors, stride, feature_map_shape,
              all_anchors>>
vars == <<targetVars, tileVars>>

-----------------------------------------------------------------------------
(* Bounds of the model *)
MaxAnchors == 2
MaxGt == 2
MaxDim == 2
MaxRatios == 1

(* Program constants *)
padding_value == -1
negative_overlap == <<2, 5>>
positive_overlap == <<1, 2>>
mean == <<0, 1>>
std == <<1, 5>>
num_classes == 2

-----------------------------------------------------------------------------
(* Exact arithmetic on quotients *)
Abs(x) == IF x < 0 THEN -x ELSE x
Sign(x) == IF x > 0 THEN 1 ELSE IF x < 0 THEN -1 ELSE 0
Max(x, y) == IF x >= y THEN x ELSE y
Min(x, y) == IF x <= y THEN x ELSE y

RECURSIVE GCD(_, _)
GCD(x, y) == IF y = 0 THEN x ELSE GCD(y, x % y)

\* n / d as IEEE division gives it: a reduced fraction, or inf / -inf / NaN
Div(n, d) ==
    IF d = 0 THEN <<Sign(n), 0>>
    ELSE LET g == GCD(Abs(n), Abs(d))
         IN  <<(Sign(d) * n) \div g, Abs(d) \div g>>

IsFinite(q) == q[2] # 0
\* q / r for quotients, r finite and not zero
QDiv(q, r) ==
    IF q[2] = 0 THEN <<q[1] * Sign(r[1]), 0>>
    ELSE Div(q[1] * r[2], q[2] * r[1])
QSub(q, r) == IF q[2] = 0 THEN q ELSE Div(q[1] * r[2] - r[1] * q[2], q[2] * r[2])
QAdd(q, r) == Div(q[1] * r[2] + r[1] * q[2], q[2] * r[2])
QMul(q, r) == Div(q[1] * r[1], q[2] * r[2])
\* comparisons of finite quotients
GreaterEqual(q, r) == q[1] * r[2] >= r[1] * q[2]
Greater(q, r) == q[1] * r[2] > r[1] * q[2]

-----------------------------------------------------------------------------
(* bndbox.bbox_overlap: IoU of every anchor with every ground-truth box of  *)
(* the same image; 0 when the union is 0.                                  *)
Area(box) == (box[3] - box[1]) * (box[4] - box[2])

IoU(a, b) ==
    LET iw == Max(0, Min(a[3], b[3]) - Max(a[1], b[1]))
        ih == Max(0, Min(a[4], b[4]) - Max(a[2], b[2]))
        intersection == iw * ih
        union == Area(a) + Area(b) - intersection
    IN  IF union = 0 THEN <<0, 1>> ELSE Div(intersection, union)

bbox_overlap(boxesA, boxesB) ==
    [b \in 1..Len(boxesB) |->
        [n \in 1..Len(boxesA[b]) |->
            [m \in 1..Len(boxesB[b]) |-> IoU(boxesA[b][n], boxesB[b][m])]]]

-----------------------------------------------------------------------------
(* Tensor helpers *)
\* A tensor is a value: each of its elements is computed once.  T1, T2, T3
\* turn an array expression of rank 1, 2, 3 into the sequence of its elements.
RECURSIVE Elements(_, _)
Elements(f, n) == IF n = 0 THEN << >> ELSE Append(Elements(f, n - 1), f[n])
T1(f) == Elements(f, Cardinality(DOMAIN f))
T2(f) == T1([i \in DOMAIN f |-> T1(f[i])])
T3(f) == T1([i \in DOMAIN f |-> T2(f[i])])

\* tf.argmax over the last axis: 0-based index of the first maximum
RECURSIVE ArgMaxScan(_, _, _, _)
ArgMaxScan(row, k, best, best_value) ==
    IF k > Len(row) THEN best
    ELSE LET v == row[k]
         IN  IF Greater(v, best_value) THEN ArgMaxScan(row, k + 1, k - 1, v)
             ELSE ArgMaxScan(row, k + 1, best, best_value)

ArgMax(row) == ArgMaxScan(row, 2, 0, row[1])

\* tf.reduce_max over the last axis
ReduceMax(row) == row[ArgMax(row) + 1]

\* tf.reshape of a flat [B*N] tensor to [B, N] (row-major)
Reshape2(flat, B, N) == T2([b \in 1..B |-> [n \in 1..N |-> flat[(b - 1) * N + n]]])

\* tf.gather_nd(params, indices) with indices [K, 2] into params [B][*]
GatherNd(params, indices) ==
    T1([i \in 1..Len(indices) |->
        LET index == indices[i] IN params[index[1] + 1][index[2] + 1]])

\* an index of `indices` lies outside params
OutOfRange(params, indices) ==
    \E i \in 1..Len(indices) :
        LET index == indices[i] IN index[2] >= Len(params[index[1] + 1])

\* tf.gather_nd on a device that stores 0 for an index out of range
GatherNdZeroFill(params, indices) ==
    T1([i \in 1..Len(indices) |->
        LET index == indices[i]
        IN  IF index[2] >= Len(params[index[1] + 1])
            THEN <<0, 0, 0, 0>>
            ELSE params[index[1] + 1][index[2] + 1]])

\* tf.one_hot(label, depth, off_value=0): all zero for a label outside 0..depth-1
OneHot(label, depth) == T1([c \in 1..depth |-> IF c - 1 = label THEN 1 ELSE 0])

-----------------------------------------------------------------------------
(* compute_gt_annotations.  tf.gather_nd with an index out of range stores *)
(* 0 on the GPU kernel and raises on the CPU kernel; the operators below    *)
(* give the zero-filled result, the action GatherOutOfRange the raise.      *)
TileBatch(anc, batch_size) == T1([b \in 1..batch_size |-> anc])

Overlaps(anc, annotations) ==
    T3(bbox_overlap(TileBatch(anc, Len(annotations)), annotations))

\* tf.argmax(overlaps, axis=-1)
ArgmaxOverlapsInds(overlaps) ==
    T2([b \in 1..Len(overlaps) |-> [n \in 1..Len(overlaps[b]) |-> ArgMax(overlaps[b][n])]])

\* tf.reduce_max(overlaps, axis=-1)
MaxOverlaps(overlaps) ==
    T2([b \in 1..Len(overlaps) |-> [n \in 1..Len(overlaps[b]) |-> ReduceMax(overlaps[b][n])]])

\* [batch_idx, argmax] for every anchor of every image, flattened to [B*N, 2]
BatchedIndices(argmax_inds, batch_size, N) ==
    T1([i \in 1..(batch_size * N) |->
            <<(i - 1) \div N, argmax_inds[((i - 1) \div N) + 1][((i - 1) % N) + 1]>>])

\* the boxes whose area decides small_areas: gathered from the tiled ANCHORS
\* at [batch_idx, argmax]
MaxOverlapBoxes(tiled, batched_indices, batch_size, N) ==
    Reshape2(GatherNdZeroFill(tiled, batched_indices), batch_size, N)

SmallAreas(boxes) ==
    T2([b \in 1..Len(boxes) |-> [n \in 1..Len(boxes[b]) |-> Area(boxes[b][n]) < 1]])

IsPositive(max_iou, small) == GreaterEqual(max_iou, positive_overlap) /\ ~small

IsIgnore(max_iou, small) ==
    (Greater(max_iou, negative_overlap) /\ ~IsPositive(max_iou, small)) \/ small

compute_gt_annotations(anc, annotations) ==
    LET batch_size == Len(annotations)
        N == Len(anc)
        tiled == TileBatch(anc, batch_size)
        overlaps == Overlaps(anc, annotations)
        max_overlaps == MaxOverlaps(overlaps)
        batched_indices == BatchedIndices(ArgmaxOverlapsInds(overlaps), batch_size, N)
        small_areas == SmallAreas(MaxOverlapBoxes(tiled, batched_indices, batch_size, N))
    IN  [positive |-> T2([b \in 1..batch_size |-> [n \in 1..N |->
                          IsPositive(max_overlaps[b][n], small_areas[b][n])]]),
         ignore   |-> T2([b \in 1..batch_size |-> [n \in 1..N |->
                          IsIgnore(max_overlaps[b][n], small_areas[b][n])]]),
         inds     |-> batched_indices]

\* the gather of line 271 reads outside the anchors
GatherIsOutOfRange(anc, annotations) ==
    OutOfRange(TileBatch(anc, Len(annotations)),
               BatchedIndices(ArgmaxOverlapsInds(Overlaps(anc, annotations)),
                              Len(annotations), Len(anc)))

-----------------------------------------------------------------------------
(* bbox_transform *)
\* the x2 offset taken from the anchor's x1
BoxTarget_Corner(anchor, gt) ==
    LET anchor_width == anchor[3] - anchor[1]
        anchor_height == anchor[4] - anchor[2]
        targets == << Div(gt[1] - anchor[1], anchor_width),
                      Div(gt[2] - anchor[2], anchor_height),
                      Div(gt[3] - anchor[1], anchor_width),
                      Div(gt[4] - anchor[4], anchor_height) >>
    IN  T1([c \in 1..4 |-> QDiv(QSub(targets[c], mean), std)])

BoxTarget(anchor, gt) ==
    LET anchor_width == anchor[3] - anchor[1]
        anchor_height == anchor[4] - anchor[2]
        targets == << Div(gt[1] - anchor[1], anchor_width),
                      Div(gt[2] - anchor[2], anchor_height),
                      Div(gt[3] - anchor[3], anchor_width),
                      Div(gt[4] - anchor[4], anchor_height) >>
    IN  T1([c \in 1..4 |-> QDiv(QSub(targets[c], mean), std)])

bbox_transform(anc, gt_boxes) ==
    T2([b \in 1..Len(gt_boxes) |-> [n \in 1..Len(anc) |-> BoxTarget(anc[n], gt_boxes[b][n])]])

-----------------------------------------------------------------------------
(* The masking steps and the encoding of anchor_targets_bbox *)
NoPaddingMask(chosen) ==
    T2([b \in 1..Len(chosen) |-> [n \in 1..Len(chosen[b]) |-> chosen[b][n] # padding_value]])

\* the demotion forgotten: positive is left as it was
PaddingPositive_Kept(positive, no_padding_mask) == positive

PaddingPositive(positive, no_padding_mask) ==
    T2([b \in 1..Len(positive) |-> [n \in 1..Len(positive[b]) |->
        positive[b][n] /\ no_padding_mask[b][n]]])

\* the padded anchors not added: ignore is left as it was
PaddingIgnore_Kept(ignore, no_padding_mask) == ignore

PaddingIgnore(ignore, no_padding_mask) ==
    T2([b \in 1..Len(ignore) |-> [n \in 1..Len(ignore[b]) |->
        ignore[b][n] \/ ~no_padding_mask[b][n]]])

XAnchorCentre(anchor) == Div(anchor[1] + anchor[3], 2)
YAnchorCentre(anchor) == Div(anchor[2] + anchor[4], 2)

\* tf.greater in place of tf.greater_equal
OutMask_Greater(anc, shape) ==
    T1([n \in 1..Len(anc) |->
        \/ Greater(XAnchorCentre(anc[n]), <<shape[2], 1>>)
        \/ Greater(YAnchorCentre(anc[n]), <<shape[1], 1>>)])

\* images.shape = [BATCH, H, W, C]: shape[2] = W, shape[1] = H
OutMask(anc, shape) ==
    T1([n \in 1..Len(anc) |->
        \/ GreaterEqual(XAnchorCentre(anc[n]), <<shape[2], 1>>)
        \/ GreaterEqual(YAnchorCentre(anc[n]), <<shape[1], 1>>)])

OutOfImageIgnore(ignore, out_mask) ==
    T2([b \in 1..Len(ignore) |-> [n \in 1..Len(ignore[b]) |->
        ignore[b][n] \/ out_mask[n]]])

\* the state column: cast(positive) overwritten by -1 where ignore
StateOf(positive, ignore) == IF ignore THEN -1 ELSE IF positive THEN 1 ELSE 0

\* the class index handed to tf.one_hot
ClassIndex(positive, ignore, chosen) ==
    IF ignore THEN -1 ELSE IF positive THEN chosen ELSE 0

ClassTarget(positive, ignore, chosen) ==
    T2([b \in 1..Len(positive) |-> [n \in 1..Len(positive[b]) |->
        Append(OneHot(ClassIndex(positive[b][n], ignore[b][n], chosen[b][n]), num_classes),
               StateOf(positive[b][n], ignore[b][n]))]])

RegressionTarget(positive, ignore, anc, boxes, inds) ==
    LET chose_bndboxes == Reshape2(GatherNd(boxes, inds), Len(boxes), Len(anc))
        regression == bbox_transform(anc, chose_bndboxes)
    IN  T2([b \in 1..Len(positive) |-> [n \in 1..Len(positive[b]) |->
            Append(regression[b][n], StateOf(positive[b][n], ignore[b][n]))]])

-----------------------------------------------------------------------------
(* The numbers of AnchorGenerator: sums of quotients times 2^(k/6),         *)
(* k = 0 .. Degree - 1.                                                     *)
Degree == 6

\* the number whose coefficient of 2^(k/6) is c[k]
Number(c) == <<c[0], c[1], c[2], c[3], c[4], c[5]>>
Exponents == 0..(Degree - 1)

\* q * 2^(k/6)
Term(q, k) == Number([i \in Exponents |-> IF i = k THEN q ELSE <<0, 1>>])
Rational(q) == Term(q, 0)
Zero == Rational(<<0, 1>>)

SAdd(a, b) == Number([i \in Exponents |-> QAdd(a[i + 1], b[i + 1])])
SSub(a, b) == Number([i \in Exponents |-> QSub(a[i + 1], b[i + 1])])

\* the coefficient of 2^(k/6) in a * b: the products a_i * b_j with
\* i + j = k, and twice those with i + j = k + Degree
RECURSIVE SMulScan(_, _, _, _)
SMulScan(a, b, k, i) ==
    IF i < 0 THEN <<0, 1>>
    ELSE LET product == QMul(a[i + 1], b[((k - i + Degree) % Degree) + 1])
         IN  QAdd(IF i > k THEN QMul(<<2, 1>>, product) ELSE product,
                  SMulScan(a, b, k, i - 1))

SMul(a, b) == Number([k \in Exponents |-> SMulScan(a, b, k, Degree - 1)])

\* the exponent k of a number q * 2^(k/6)
ExponentOf(a) == IF a = Zero THEN 0 ELSE (CHOOSE i \in 1..Degree : a[i] # <<0, 1>>) - 1

\* a / b for a divisor of one term: 1 / (q * 2^(k/6)) is 1/q for k = 0 and
\* (1 / (2 * q)) * 2^((Degree - k)/6) otherwise
SDiv(a, b) ==
    LET k == ExponentOf(b)
        q == b[k + 1]
    IN  IF k = 0 THEN SMul(a, Rational(QDiv(<<1, 1>>, q)))
        ELSE SMul(a, Term(QDiv(<<1, 2>>, q), Degree - k))

\* the integer part of the square root of n, by Newton's iteration
RECURSIVE IntSqrtScan(_, _)
IntSqrtScan(n, s) ==
    LET next == (s + (n \div s)) \div 2
    IN  IF next >= s THEN s ELSE IntSqrtScan(n, next)

IntSqrt(n) == IF n = 0 THEN 0 ELSE IntSqrtScan(n, n)
IsSquare(q) == IntSqrt(q[1]) * IntSqrt(q[1]) = q[1] /\ IntSqrt(q[2]) * IntSqrt(q[2]) = q[2]
QSqrt(q) == <<IntSqrt(q[1]), IntSqrt(q[2])>>

\* np.sqrt of one term q * 2^(k/6), k even: sqrt(q) * 2^((k/2)/6) when q is a
\* square, and sqrt(q / 2) * 2^((k/2 + 3)/6) when q / 2 is
SSqrt(a) ==
    LET k == ExponentOf(a)
        q == a[k + 1]
    IN  IF IsSquare(q) THEN Term(QSqrt(q), k \div 2)
        ELSE Term(QSqrt(QDiv(q, <<2, 1>>)), (k \div 2) + (Degree \div 2))

-----------------------------------------------------------------------------
(* AnchorGenerator._generate *)
\* [2 ** 0, 2 ** (1 / 3.0), 2 ** (2 / 3.0)]
anchor_scales == <<Term(<<1, 1>>, 0), Term(<<1, 1>>, 2), Term(<<1, 1>>, 4)>>

\* AnchorGenerator.__len__
AnchorCount(ratios) == Len(ratios) * Len(anchor_scales)

\* np.tile(scales, (2, len(ratios))).T, row i (0-based): the scales in turn
TileScales(scales, i) == scales[(i % Len(scales)) + 1]
\* np.repeat(ratios, len(scales)), element i (0-based): every ratio in a run
RepeatRatios(ratios, scales, i) == ratios[(i \div Len(scales)) + 1]

\* one row of the array: lines 100-111 for one scale and one ratio
AnchorRow(sz, scale, ratio) ==
    LET side == SMul(sz, scale)
        area == SMul(side, side)
        w == SSqrt(SDiv(area, ratio))
        h == SMul(w, ratio)
        half_w == SMul(w, Rational(<<1, 2>>))
        half_h == SMul(h, Rational(<<1, 2>>))
    IN  <<SSub(Zero, half_w), SSub(Zero, half_h), SSub(w, half_w), SSub(h, half_h)>>

_generate(sz, ratios) ==
    LET scales == anchor_scales
        num_anchors == AnchorCount(ratios)
    IN  T1([row \in 1..num_anchors |->
            AnchorRow(sz, TileScales(scales, row - 1),
                      RepeatRatios(ratios, scales, row - 1))])

-----------------------------------------------------------------------------
(* AnchorGenerator.tile_anchors_over_feature_map *)
\* (tf.range(0, limit) + 0.5) * stride
ShiftAxis(limit, st) == [i \in 1..limit |-> Div((2 * (i - 1) + 1) * st, 2)]

\* tf.meshgrid(x, y), indexing 'xy': both results have shape [Len(y)][Len(x)]
MeshgridX(x, y) == [r \in 1..Len(y) |-> [c \in 1..Len(x) |-> x[c]]]
MeshgridY(x, y) == [r \in 1..Len(y) |-> [c \in 1..Len(x) |-> y[r]]]

\* a column-major reading of the [h][w] tensor
Flatten_ColumnMajor(m, h, w) ==
    [i \in 1..(h * w) |-> m[((i - 1) % h) + 1][((i - 1) \div h) + 1]]

\* tf.reshape(m, [-1]) of an [h][w] tensor
Flatten(m, h, w) == [i \in 1..(h * w) |-> m[((i - 1) \div w) + 1][((i - 1) % w) + 1]]

Shifts(h, w, st) ==
    LET x == ShiftAxis(w, st)
        y == ShiftAxis(h, st)
        shift_x == Flatten(MeshgridX(x, y), h, w)
        shift_y == Flatten(MeshgridY(x, y), h, w)
    IN  [s \in 1..(h * w) |-> <<shift_x[s], shift_y[s], shift_x[s], shift_y[s]>>]

tile_anchors_over_feature_map(canonical, shape, st) ==
    LET shifts == Shifts(shape[1], shape[2], st)
        A == Len(canonical)
        K == Len(shifts)
        shifted == [s \in 1..K |-> [a \in 1..A |-> [c \in 1..4 |->
                       SAdd(canonical[a][c], Rational(shifts[s][c]))]]]
    IN  [i \in 1..(K * A) |-> shifted[((i - 1) \div A) + 1][((i - 1) % A) + 1]]

-----------------------------------------------------------------------------
(* Inputs *)
AnchorBoxes == { <<0, 0, 10, 10>>, <<0, 0, 0, 5>>, <<-10, 0, 0, 10>> }
\* a ground-truth slot is <<box, label>>; with the anchor (0,0,10,10) the boxes
\* have IoU 0.64, 0.5, 0.45, 0.4 and 0
GtSlots == { << <<1, 1, 9, 9>>, 0 >>,  << <<1, 1, 9, 9>>, padding_value >>,
             << <<0, 0, 10, 5>>, 1 >>, << <<0, 0, 9, 5>>, 1 >>,
             << <<0, 0, 10, 4>>, 0 >>, << <<0, 0, 0, 0>>, padding_value >>,
             << <<0, 0, 0, 0>>, 1 >> }
\* the slot of an absent object; a batch is one image, or one image followed
\* by an image without objects
PaddingSlot == << <<0, 0, 0, 0>>, padding_value >>
ImageShapes == { <<12, 12>>, <<12, 5>>, <<5, 12>> }
\* AnchorGenerator(size, aspect_ratios, stride): sizes 2 * sqrt(2), 4 and 32,
\* ratios 0.5, 1 and 2.  A size q * 2^(k/6) and a ratio r * r * 2^j, q and r
\* quotients, keep every number of _generate a single term.
Sizes == { Term(<<2, 1>>, 3), Rational(<<4, 1>>), Rational(<<32, 1>>) }
Ratios == { Rational(<<1, 2>>), Rational(<<1, 1>>), Rational(<<2, 1>>) }
Strides == {1, 8}

SeqsUpTo(S, k) == UNION { [1..n -> S] : n \in 1..k }

Empty == << >>

InitTargets ==
    /\ pc = "start"
    /\ anchors \in SeqsUpTo(AnchorBoxes, MaxAnchors)
    /\ image_shape \in ImageShapes
    /\ \E gt \in SeqsUpTo(GtSlots, MaxGt), batch_size \in 1..2 :
          /\ bndboxes = T1([b \in 1..batch_size |->
                 T1([m \in 1..Len(gt) |-> IF b = 1 THEN gt[m][1] ELSE PaddingSlot[1]])])
          /\ labels = T1([b \in 1..batch_size |->
                 T1([m \in 1..Len(gt) |-> IF b = 1 THEN gt[m][2] ELSE PaddingSlot[2]])])
    /\ positive_indices = Empty
    /\ ignore_indices = Empty
    /\ argmax_overlaps_inds = Empty
    /\ chose_labels = Empty
    /\ labels_per_anchor = Empty
    /\ regression_per_anchor = Empty

IdleTargets ==
    /\ pc = "idle"
    /\ anchors = Empty
    /\ image_shape = Empty
    /\ bndboxes = Empty
    /\ labels = Empty
    /\ positive_indices = Empty
    /\ ignore_indices = Empty
    /\ argmax_overlaps_inds = Empty
    /\ chose_labels = Empty
    /\ labels_per_anchor = Empty
    /\ regression_per_anchor = Empty

InitTile ==
    /\ tpc = "start"
    /\ size \in Sizes
    /\ aspect_ratios \in SeqsUpTo(Ratios, MaxRatios)
    /\ self_anchors = _generate(size, aspect_ratios)
    /\ stride \in Strides
    /\ feature_map_shape \in (0..MaxDim) \X (0..MaxDim)
    /\ all_anchors = Empty

IdleTile ==
    /\ tpc = "idle"
    /\ size = Zero
    /\ aspect_ratios = Empty
    /\ self_anchors = Empty
    /\ stride = 1
    /\ feature_map_shape = <<0, 0>>
    /\ all_anchors = Empty

-----------------------------------------------------------------------------
(* anchor_targets_bbox, step by step *)

\* lines 170-174: the call of compute_gt_annotations
ComputeGt ==
    /\ pc = "start"
    /\ LET result == compute_gt_annotations(anchors, bndboxes)
       IN  /\ positive_indices' = result.positive
           /\ ignore_indices' = result.ignore
           /\ argmax_overlaps_inds' = result.inds
    /\ pc' = "matched"
    /\ UNCHANGED <<anchors, image_shape, bndboxes, labels, chose_labels,
                   labels_per_anchor, regression_per_anchor, tileVars>>

\* line 271 on the CPU kernel: an argmax that is no anchor index raises
GatherOutOfRange ==
    /\ pc = "start"
    /\ GatherIsOutOfRange(anchors, bndboxes)
    /\ pc' = "raised"
    /\ UNCHANGED <<anchors, image_shape, bndboxes, labels, positive_indices,
                   ignore_indices, argmax_overlaps_inds, chose_labels,
                   labels_per_anchor, regression_per_anchor, tileVars>>

\* lines 176-184
DemotePadding ==
    /\ pc = "matched"
    /\ LET chosen == Reshape2(GatherNd(labels, argmax_overlaps_inds),
                              Len(bndboxes), Len(anchors))
       IN  /\ chose_labels' = chosen
           /\ positive_indices' = PaddingPositive(positive_indices, NoPaddingMask(chosen))
           /\ ignore_indices' = PaddingIgnore(ignore_indices, NoPaddingMask(chosen))
    /\ pc' = "padded"
    /\ UNCHANGED <<anchors, image_shape, bndboxes, labels, argmax_overlaps_inds,
                   labels_per_anchor, regression_per_anchor, tileVars>>

\* lines 186-192
IgnoreOutOfImage ==
    /\ pc = "padded"
    /\ ignore_indices' = OutOfImageIgnore(ignore_indices, OutMask(anchors, image_shape))
    /\ pc' = "masked"
    /\ UNCHANGED <<anchors, image_shape, bndboxes, labels, positive_indices,
                   argmax_overlaps_inds, chose_labels, labels_per_anchor,
                   regression_per_anchor, tileVars>>

\* lines 194-219
Encode ==
    /\ pc = "masked"
    /\ labels_per_anchor' = ClassTarget(positive_indices, ignore_indices, chose_labels)
    /\ regression_per_anchor' =
           RegressionTarget(positive_indices, ignore_indices, anchors, bndboxes,
                            argmax_overlaps_inds)
    /\ pc' = "done"
    /\ UNCHANGED <<anchors, image_shape, bndboxes, labels, positive_indices,
                   ignore_indices, argmax_overlaps_inds, chose_labels, tileVars>>

\* lines 49-89
Tile ==
    /\ tpc = "start"
    /\ all_anchors' = tile_anchors_over_feature_map(self_anchors, feature_map_shape, stride)
    /\ tpc' = "done"
    /\ UNCHANGED <<size, aspect_ratios, self_anchors, stride, feature_map_shape,
                   targetVars>>

Init == InitTargets /\ IdleTile
Next == ComputeGt \/ GatherOutOfRange \/ DemotePadding \/ IgnoreOutOfImage \/ Encode
Spec == Init /\ [][Next]_vars

TileInit == IdleTargets /\ InitTile
TileNext == Tile
TileSpec == TileInit /\ [][TileNext]_vars

-----------------------------------------------------------------------------
(* Vocabulary of the properties.  These restate what the claims speak of in *)
(* plain arithmetic on the arguments and the returned tensors.              *)
NB == Len(bndboxes)
NA == Len(anchors)
Images == 1..NB
AnchorIds == 1..NA
Computed == pc \in {"matched", "padded", "masked", "done"}

\* 0-based index of the ground-truth slot matched to anchor n in image b
Matched(b, n) == argmax_overlaps_inds[(b - 1) * NA + n][2]
MatchedBox(b, n) == bndboxes[b][Matched(b, n) + 1]
MatchedLabel(b, n) == labels[b][Matched(b, n) + 1]

\* the largest IoU of anchor n with a ground-truth box of image b
BestIoU(b, n) ==
    LET ious == { IoU(anchors[n], bndboxes[b][m]) : m \in 1..Len(bndboxes[b]) }
    IN  CHOOSE q \in ious : \A r \in ious : q[1] * r[2] >= r[1] * q[2]
AtLeast(q, num, den) == q[1] * den >= num * q[2]
MoreThan(q, num, den) == q[1] * den > num * q[2]

RegState(b, n) == regression_per_anchor[b][n][5]
ClassState(b, n) == labels_per_anchor[b][n][num_classes + 1]
ClassColumns(b, n) == [c \in 1..num_classes |-> labels_per_anchor[b][n][c]]
AllZero(row) == \A c \in DOMAIN row : row[c] = 0
OneHotAt(row, label) == \A c \in DOMAIN row : row[c] = (IF c - 1 = label THEN 1 ELSE 0)

Width(box) == box[3] - box[1]
Height(box) == box[4] - box[2]
CentreOutside(box) ==
    \/ box[1] + box[3] >= 2 * image_shape[2]
    \/ box[2] + box[4] >= 2 * image_shape[1]
CentreStrictlyInside(box) ==
    /\ 0 < box[1] + box[3] /\ box[1] + box[3] < 2 * image_shape[2]
    /\ 0 < box[2] + box[4] /\ box[2] + box[4] < 2 * image_shape[1]
AllPadding(b) == \A m \in 1..Len(labels[b]) : labels[b][m] = padding_value
Exclusive == \A b \in Images, n \in AnchorIds : ~(positive_indices[b][n] /\ ignore_indices[b][n])

-----------------------------------------------------------------------------
\* C1 (as claimed): positiveMask and ignoreMask are never both true for any
\* image and anchor: in the masks compute_gt_annotations returns, after the
\* padding demotion, and after the out-of-image step.
C1_Original == Computed => Exclusive

\* C1 (amended): the masks are exclusive as returned by compute_gt_annotations
\* and after the padding demotion; after the out-of-image step both can be true,
\* only for an anchor whose centre is outside the image, and the state column
\* of such an anchor is Ignore.
C1_Amended ==
    /\ pc \in {"matched", "padded"} => Exclusive
    /\ pc \in {"masked", "done"} =>
          \A b \in Images, n \in AnchorIds :
              positive_indices[b][n] /\ ignore_indices[b][n] => CentreOutside(anchors[n])
    /\ pc = "done" =>
          \A b \in Images, n \in AnchorIds :
              ignore_indices[b][n] => RegState(b, n) = -1 /\ ClassState(b, n) = -1

C1_Witness ==
    /\ pc = "done"
    /\ \E b \in Images, n \in AnchorIds :
          /\ positive_indices[b][n] /\ ignore_indices[b][n]
          /\ RegState(b, n) = -1
    /\ \E b \in Images, n \in AnchorIds : MatchedLabel(b, n) = padding_value

\* C2 (as claimed): the class columns of a row are all zero when the anchor's
\* state is Background or Ignore, and one-hot at the matched label exactly when
\* the state is Foreground.
C2_Claim ==
    pc = "done" =>
        \A b \in Images, n \in AnchorIds :
            /\ ClassState(b, n) \in {0, -1} => AllZero(ClassColumns(b, n))
            /\ ClassState(b, n) = 1 <=>
                  (~AllZero(ClassColumns(b, n))
                   /\ OneHotAt(ClassColumns(b, n), MatchedLabel(b, n)))

\* What the code does hold: Ignore rows are zero, Foreground rows are one-hot at
\* the matched label, Background rows are one-hot at class 0.
C2_CodeBehaviour ==
    pc = "done" =>
        \A b \in Images, n \in AnchorIds :
            /\ ClassState(b, n) = -1 => AllZero(ClassColumns(b, n))
            /\ ClassState(b, n) = 1 => OneHotAt(ClassColumns(b, n), MatchedLabel(b, n))
            /\ ClassState(b, n) = 0 => OneHotAt(ClassColumns(b, n), 0)

\* C3 (as claimed): an anchor whose centre is not strictly inside the image,
\* not (0 < cx < W and 0 < cy < H), has state Ignore in both targets for every
\* image of the batch.
C3_Original ==
    pc = "done" =>
        \A n \in AnchorIds : ~CentreStrictlyInside(anchors[n]) =>
            \A b \in Images : RegState(b, n) = -1 /\ ClassState(b, n) = -1

\* C3 (amended): an anchor whose centre has cx >= W or cy >= H has state Ignore
\* in both targets for every image of the batch, also when its largest IoU
\* reaches positive_overlap with a real ground-truth box.
C3_Amended ==
    pc = "done" =>
        \A n \in AnchorIds : CentreOutside(anchors[n]) =>
            \A b \in Images : RegState(b, n) = -1 /\ ClassState(b, n) = -1

C3_Witness ==
    /\ pc = "done"
    /\ \E b \in Images, n \in AnchorIds :
          /\ CentreOutside(anchors[n])
          /\ AtLeast(BestIoU(b, n), 1, 2)
          /\ MatchedLabel(b, n) # padding_value
          /\ RegState(b, n) = -1

\* C4: an anchor whose matched ground-truth slot carries padding_value is not in
\* positiveMask and is in ignoreMask from the padding demotion on, and its
\* state is never Foreground, whatever its largest IoU.
C4_PaddingDemoted ==
    /\ pc \in {"padded", "masked", "done"} =>
          \A b \in Images, n \in AnchorIds :
              MatchedLabel(b, n) = padding_value =>
                  ~positive_indices[b][n] /\ ignore_indices[b][n]
    /\ pc = "done" =>
          \A b \in Images, n \in AnchorIds :
              MatchedLabel(b, n) = padding_value =>
                  RegState(b, n) # 1 /\ ClassState(b, n) # 1

C4_Witness ==
    /\ pc = "done"
    /\ \E b \in Images, n \in AnchorIds :
          /\ MatchedLabel(b, n) = padding_value
          /\ AtLeast(BestIoU(b, n), 1, 2)
          /\ Area(anchors[n]) >= 1
          /\ RegState(b, n) = -1

\* C5 (as claimed): with an image whose slots are all padding the call
\* completes without an index out of range and without a division by zero,
\* every anchor of that image is Background or Ignore, and its class columns
\* are all zero.
C5_Claim ==
    (\E b \in Images : AllPadding(b)) =>
        /\ pc # "raised"
        /\ pc = "done" =>
              \A b \in Images, n \in AnchorIds : AllPadding(b) =>
                  /\ \A c \in 1..4 : IsFinite(regression_per_anchor[b][n][c])
                  /\ RegState(b, n) \in {0, -1} /\ ClassState(b, n) \in {0, -1}
                  /\ AllZero(ClassColumns(b, n))

\* What the code does hold for an all-padding image when it returns.
C5_CodeBehaviour ==
    pc = "done" =>
        \A b \in Images, n \in AnchorIds : AllPadding(b) =>
            /\ RegState(b, n) = -1 /\ ClassState(b, n) = -1
            /\ AllZero(ClassColumns(b, n))

\* C6 (as claimed): in compute_gt_annotations, for an anchor whose matched
\* ground-truth box is not degenerate, positive holds iff max_iou >=
\* positive_overlap and ignore holds iff max_iou > negative_overlap and not
\* positive; max_iou = 0.5 is positive, max_iou = 0.4 is neither, and a max_iou
\* strictly between is ignore.
C6_Claim ==
    pc = "matched" =>
        \A b \in Images, n \in AnchorIds : Area(MatchedBox(b, n)) >= 1 =>
            LET q == BestIoU(b, n)
            IN  /\ positive_indices[b][n] <=> AtLeast(q, 1, 2)
                /\ ignore_indices[b][n] <=> (MoreThan(q, 2, 5) /\ ~positive_indices[b][n])
                /\ q = <<1, 2>> => positive_indices[b][n]
                /\ q = <<2, 5>> => ~positive_indices[b][n] /\ ~ignore_indices[b][n]
                /\ (MoreThan(q, 2, 5) /\ ~AtLeast(q, 1, 2)) =>
                      ignore_indices[b][n] /\ ~positive_indices[b][n]

\* What the code does hold: the same thresholds, for an anchor whose GATHERED
\* box (the anchor at the matched slot's index, or zeros past the last anchor)
\* has area >= 1.
GatheredSmall(b, n) ==
    LET j == Matched(b, n)
    IN  IF j >= NA THEN TRUE ELSE Area(anchors[j + 1]) < 1

C6_CodeBehaviour ==
    pc = "matched" =>
        \A b \in Images, n \in AnchorIds :
            LET q == BestIoU(b, n)
            IN  IF GatheredSmall(b, n)
                THEN ~positive_indices[b][n] /\ ignore_indices[b][n]
                ELSE /\ positive_indices[b][n] <=> AtLeast(q, 1, 2)
                     /\ ignore_indices[b][n] <=>
                           (MoreThan(q, 2, 5) /\ ~positive_indices[b][n])

\* C8 (as claimed): bbox_transform returns no target for an anchor of width
\* <= 0 or height <= 0 (it fails with DegenerateAnchorError), and no returned
\* target holds inf or NaN.
C8_Claim ==
    pc = "done" =>
        /\ \A n \in AnchorIds : Width(anchors[n]) > 0 /\ Height(anchors[n]) > 0
        /\ \A b \in Images, n \in AnchorIds, c \in 1..4 :
              IsFinite(regression_per_anchor[b][n][c])

\* C9 (as claimed): the degenerate flag of anchor n in image b is the area of
\* its matched ground-truth box being < 1: the anchor is positive iff max_iou >=
\* positive_overlap and that box is not degenerate, and ignored iff that box is
\* degenerate or max_iou > negative_overlap without being positive.
C9_Claim ==
    pc = "matched" =>
        \A b \in Images, n \in AnchorIds :
            LET degenerate == Area(MatchedBox(b, n)) < 1
                q == BestIoU(b, n)
            IN  /\ positive_indices[b][n] <=> (AtLeast(q, 1, 2) /\ ~degenerate)
                /\ ignore_indices[b][n] <=>
                      ((MoreThan(q, 2, 5) /\ ~positive_indices[b][n]) \/ degenerate)

\* C10: for a Foreground anchor (x1,y1,x2,y2) matched to g the four regression
\* columns are ((g.x1-x1)/w, (g.y1-y1)/h, (g.x2-x2)/w, (g.y2-y2)/h) / 0.2, the
\* fifth column of every row is the state; the anchor (0,0,10,10) alone with the
\* real ground truth (1,1,9,9) in an image holding its centre is Foreground
\* with regression (0.5, 0.5, -0.5, -0.5).
IsQuotient(q, num, den) == q[2] # 0 /\ q[1] * den = num * q[2]
StateFromMasks(b, n) ==
    IF ignore_indices[b][n] THEN -1 ELSE IF positive_indices[b][n] THEN 1 ELSE 0

C10_Regression ==
    pc = "done" =>
        /\ \A b \in Images, n \in AnchorIds :
              /\ RegState(b, n) = StateFromMasks(b, n)
              /\ RegState(b, n) = 1 =>
                    LET a == anchors[n]
                        g == MatchedBox(b, n)
                        r == regression_per_anchor[b][n]
                    IN  /\ Width(a) > 0 /\ Height(a) > 0
                        /\ IsQuotient(r[1], 5 * (g[1] - a[1]), Width(a))
                        /\ IsQuotient(r[2], 5 * (g[2] - a[2]), Height(a))
                        /\ IsQuotient(r[3], 5 * (g[3] - a[3]), Width(a))
                        /\ IsQuotient(r[4], 5 * (g[4] - a[4]), Height(a))
        /\ \A b \in Images :
              (/\ anchors = << <<0, 0, 10, 10>> >>
               /\ bndboxes[b] = << <<1, 1, 9, 9>> >>
               /\ labels[b][1] # padding_value
               /\ ~CentreOutside(anchors[1]))
              => regression_per_anchor[b][1] = << <<1, 2>>, <<1, 2>>, <<-1, 2>>, <<-1, 2>>, 1 >>

C10_Witness ==
    /\ pc = "done"
    /\ anchors = << <<0, 0, 10, 10>> >>
    /\ bndboxes[1] = << <<1, 1, 9, 9>> >>
    /\ labels[1][1] # padding_value
    /\ regression_per_anchor[1][1] = << <<1, 2>>, <<1, 2>>, <<-1, 2>>, <<-1, 2>>, 1 >>

-----------------------------------------------------------------------------
\* C7: for a feature map (H, W) the tiling returns exactly H*W*A boxes, and the
\* box at index s*A + k, with s = row*W + col, is canonical anchor k moved by
\* ((col+0.5)*stride, (row+0.5)*stride, (col+0.5)*stride, (row+0.5)*stride).
C7_Tiling ==
    tpc = "done" =>
        LET H == feature_map_shape[1]
            W == feature_map_shape[2]
            A == Len(self_anchors)
        IN  /\ Len(all_anchors) = H * W * A
            /\ \A row \in 0..(H - 1), col \in 0..(W - 1), k \in 0..(A - 1) :
                  LET box == all_anchors[(row * W + col) * A + k + 1]
                      shift_x == Rational(Div((2 * col + 1) * stride, 2))
                      shift_y == Rational(Div((2 * row + 1) * stride, 2))
                      canon == self_anchors[k + 1]
                  IN  /\ box[1] = SAdd(canon[1], shift_x)
                      /\ box[2] = SAdd(canon[2], shift_y)
                      /\ box[3] = SAdd(canon[3], shift_x)
                      /\ box[4] = SAdd(canon[4], shift_y)

\* AnchorGenerator(4, [0.5], stride 8) on a 2 x 2 map: the first canonical
\* anchor (-2 sqrt 2, -sqrt 2, 2 sqrt 2, sqrt 2) at row 1, column 0 is
\* (4 - 2 sqrt 2, 12 - sqrt 2, 4 + 2 sqrt 2, 12 + sqrt 2)
C7_Witness ==
    /\ tpc = "done"
    /\ feature_map_shape = <<2, 2>>
    /\ stride = 8
    /\ size = Rational(<<4, 1>>)
    /\ aspect_ratios = <<Rational(<<1, 2>>)>>
    /\ self_anchors[1] = <<Term(<<-2, 1>>, 3), Term(<<-1, 1>>, 3),
                           Term(<<2, 1>>, 3), Term(<<1, 1>>, 3)>>
    /\ Len(all_anchors) = 4 * Len(self_anchors)
    /\ all_anchors[2 * Len(self_anchors) + 1] =
           <<SAdd(Rational(<<4, 1>>), Term(<<-2, 1>>, 3)),
             SAdd(Rational(<<12, 1>>), Term(<<-1, 1>>, 3)),
             SAdd(Rational(<<4, 1>>), Term(<<2, 1>>, 3)),
             SAdd(Rational(<<12, 1>>), Term(<<1, 1>>, 3))>>

====
